---- MODULE Spec2Model ----
(***************************************************************************)
(* LiveDataDashboard (src/src/App.js): a React component that polls an     *)
(* HTTP/JSON endpoint, extracts a value by a dot path and keeps the last   *)
(* maxDataPoints samples.                                                  *)
(*                                                                         *)
(* One action is one browser task: a user event handler together with the  *)
(* re-render and the effect cleanup/re-run that it causes, one timer       *)
(* callback, or the continuation of one fetchData call after its awaits.   *)
(* Numbers are integers (no floating point). Strings that the program      *)
(* takes apart are sequences: a path is the sequence of its dot-free runs  *)
(* and its "." characters, a JSON string is the sequence of its            *)
(* characters.                                                             *)
(***************************************************************************)
EXTENDS Integers, Sequences, FiniteSets, TLC

\* ------------------------------------------------------------- bounds
\* fetchData calls started in one behaviour of Spec
MaxPolls == 2
\* fetchData calls started in one behaviour of SpecBuffer
MaxAppends == 6
\* fetchData calls awaiting the network at the same time
MaxInFlight == 2
\* segments of a path that SpecExtract evaluates
MaxSegments == 2

\* ------------------------------------------------- program constants
\* <input type="number" min="5" max="100"> of maxDataPoints
MinPoints == 5
MaxPoints == 100
\* useState(20), useState(5000)
DefaultMaxDataPoints == 20
DefaultRefreshInterval == 5000

\* ------------------------------------------------------- JSON values
Undefined == [type |-> "undefined"]
Null == [type |-> "null"]
NaN == [type |-> "NaN"]
Bool(b) == [type |-> "boolean", bool |-> b]
Num(n) == [type |-> "number", num |-> n]
Str(s) == [type |-> "string", chars |-> s]
Arr(a) == [type |-> "array", elems |-> a]
Obj(f) == [type |-> "object", fields |-> f]

\* JavaScript truthiness of a value
Truthy(v) ==
  CASE v.type = "undefined" -> FALSE
    [] v.type = "null" -> FALSE
    [] v.type = "NaN" -> FALSE
    [] v.type = "boolean" -> v.bool
    [] v.type = "number" -> v.num # 0
    [] v.type = "string" -> v.chars # <<>>
    [] OTHER -> TRUE

\* the array index a property key denotes, -1 when it is no index
IndexOf(key) ==
  CASE key = "0" -> 0
    [] key = "1" -> 1
    [] key = "2" -> 2
    [] OTHER -> -1

\* what a thrown TypeError leaves in place of a value
TypeError == [type |-> "TypeError"]

\* acc[part]: own fields of an object, indices and length of an array or a
\* string, a TypeError on null and undefined, undefined on anything else
GetProp(acc, part) ==
  CASE acc.type \in {"undefined", "null"} -> TypeError
    [] acc.type = "object" ->
         IF part \in DOMAIN acc.fields THEN acc.fields[part] ELSE Undefined
    [] acc.type = "array" ->
         IF part = "length" THEN Num(Len(acc.elems))
         ELSE IF IndexOf(part) >= 0 /\ IndexOf(part) < Len(acc.elems)
              THEN acc.elems[IndexOf(part) + 1] ELSE Undefined
    [] acc.type = "string" ->
         IF part = "length" THEN Num(Len(acc.chars))
         ELSE IF IndexOf(part) >= 0 /\ IndexOf(part) < Len(acc.chars)
              THEN Str(<<acc.chars[IndexOf(part) + 1]>>) ELSE Undefined
    [] OTHER -> Undefined

\* path.split('.'): the dot-free runs between the dots, "" for an empty run
RECURSIVE SplitFrom(_, _, _)
SplitFrom(path, i, cur) ==
  IF i > Len(path) THEN <<cur>>
  ELSE IF path[i] = "." THEN <<cur>> \o SplitFrom(path, i + 1, "")
  ELSE SplitFrom(path, i + 1, path[i])

Split(path) == SplitFrom(path, 1, "")

\* faulty variant: reduce((acc, part) => acc[part], obj), without the guard
RECURSIVE ReduceUnguarded(_, _, _)
ReduceUnguarded(parts, i, acc) ==
  IF i > Len(parts) \/ acc.type = "TypeError" THEN acc
  ELSE ReduceUnguarded(parts, i + 1, GetProp(acc, parts[i]))

\* parts.reduce((acc, part) => acc && acc[part], obj)
RECURSIVE Reduce(_, _, _)
Reduce(parts, i, acc) ==
  IF i > Len(parts) THEN acc
  ELSE Reduce(parts, i + 1, IF Truthy(acc) THEN GetProp(acc, parts[i]) ELSE acc)

getValueFromPath(obj, path) ==
  IF path = <<>> THEN obj ELSE Reduce(Split(path), 1, obj)

\* ------------------------------------------------ numeric coercion
Digits == <<"0", "1", "2", "3", "4", "5", "6", "7", "8", "9">>

DigitVal(c) == (CHOOSE d \in 1..10 : Digits[d] = c) - 1

IsDigit(c) == \E d \in 1..10 : Digits[d] = c

\* the decimal digits of a natural number
RECURSIVE NatChars(_)
NatChars(n) ==
  IF n < 10 THEN <<Digits[n + 1]>> ELSE NatChars(n \div 10) \o <<Digits[(n % 10) + 1]>>

\* String(v), as parseFloat applies it to a value that is no string
RECURSIVE ToChars(_)
ToChars(v) ==
  CASE v.type = "string" -> v.chars
    [] v.type = "number" ->
         IF v.num < 0 THEN <<"-">> \o NatChars(-v.num) ELSE NatChars(v.num)
    [] v.type = "boolean" ->
         IF v.bool THEN <<"t", "r", "u", "e">> ELSE <<"f", "a", "l", "s", "e">>
    [] v.type = "null" -> <<"n", "u", "l", "l">>
    [] v.type = "array" ->
         \* join(","), up to the first separator (parseFloat reads no further):
         \* null and undefined elements print as nothing
         IF v.elems = <<>> THEN <<>>
         ELSE (IF v.elems[1].type \in {"null", "undefined"} THEN <<>>
               ELSE ToChars(v.elems[1]))
              \o (IF Len(v.elems) > 1 THEN <<",">> ELSE <<>>)
    [] v.type = "object" -> <<"[", "o", "b", "j", "e", "c", "t", " ", "O", "b", "j", "e", "c", "t", "]">>
    [] OTHER -> <<"u", "n", "d", "e", "f", "i", "n", "e", "d">>

\* the value of the longest run of digits that starts at position i
RECURSIVE DigitRun(_, _, _)
DigitRun(s, i, acc) ==
  IF i <= Len(s) /\ IsDigit(s[i]) THEN DigitRun(s, i + 1, 10 * acc + DigitVal(s[i]))
  ELSE acc

RECURSIVE SkipSpaces(_, _)
SkipSpaces(s, i) == IF i <= Len(s) /\ s[i] = " " THEN SkipSpaces(s, i + 1) ELSE i

\* parseFloat on integer literals: leading blanks, a sign, then digits; what
\* follows the digits is ignored; no digit at all is NaN
parseFloat(v) ==
  LET s == ToChars(v)
      i == SkipSpaces(s, 1)
      signed == i <= Len(s) /\ s[i] \in {"-", "+"}
      j == IF signed THEN i + 1 ELSE i
  IN IF j <= Len(s) /\ IsDigit(s[j])
     THEN Num((IF signed /\ s[i] = "-" THEN -1 ELSE 1) * DigitRun(s, j, 0))
     ELSE NaN

\* typeof value === 'number' ? value : parseFloat(value) || 0
ToValue(value) ==
  IF value.type = "number" THEN value.num
  ELSE LET f == parseFloat(value) IN IF Truthy(f) THEN f.num ELSE 0

\* Array.prototype.slice(begin): a negative begin counts from the end, and
\* -0 is 0
Slice(arr, begin) ==
  LET start == IF begin < 0 THEN (IF Len(arr) + begin < 0 THEN 0 ELSE Len(arr) + begin)
               ELSE (IF begin > Len(arr) THEN Len(arr) ELSE begin)
  IN SubSeq(arr, start + 1, Len(arr))

\* ------------------------------------------------------ configuration
\* apiExamples: a path is written as its dot-free runs and its dots
apiExamples ==
  << [url |-> "https://api.coindesk.com/v1/bpi/currentprice.json",
      path |-> <<"bpi", ".", "USD", ".", "rate_float">>],
     [url |-> "https://randomuser.me/api/",
      path |-> <<"results[0]", ".", "login", ".", "uuid">>],
     [url |-> "https://jsonplaceholder.typicode.com/posts/1",
      path |-> <<"id">>],
     [url |-> "https://api.open-meteo.com/v1/forecast",
      path |-> <<"current", ".", "temperature_2m">>] >>

\* the example buttons the model clicks
ExampleChoices == {1, 3}

\* what the model types into the URL and path fields
Urls == {apiExamples[i].url : i \in ExampleChoices}
Paths == {apiExamples[i].path : i \in ExampleChoices}

\* what the model types into the maxDataPoints field: the field's min and max
\* bound its spinner, not what is typed, and onChange passes any number on
Capacities == {1, DefaultMaxDataPoints}

\* what it types there when it keeps to the range the field declares
RangeCapacities == {c \in {MinPoints, DefaultMaxDataPoints} :
                     c >= MinPoints /\ c <= MaxPoints}

\* the <option> values of the interval <select> the model picks: 5 and 10 seconds
IntervalOptions == {DefaultRefreshInterval, 2 * DefaultRefreshInterval}

\* the time the model advances by: every option it picks is a multiple
Quantum == DefaultRefreshInterval

\* the JSON document an endpoint serves
Body(url) ==
  IF url = apiExamples[1].url
  THEN Obj([k \in {"bpi"} |->
         Obj([c \in {"USD"} |->
           Obj([f \in {"code", "rate_float"} |->
             IF f = "code" THEN Str(<<"U", "S", "D">>) ELSE Num(67890)])])])
  ELSE Obj([k \in {"id", "title"} |->
         IF k = "id" THEN Num(1) ELSE Str(<<"4", "2", "n", "d">>)])

\* err.message of the failures a poll can meet: fetch rejects, the status is
\* not OK, response.json() rejects
ErrorMessages == {"Failed to fetch", "HTTP error! status: 500", "Unexpected token < in JSON"}

\* ---------------------------------------------------------------- state
VARIABLES
  mounted,          \* the component is mounted
  data,             \* useState([]): the samples
  isLive,           \* useState(false)
  apiUrl,           \* useState(coindesk url)
  refreshInterval,  \* useState(5000)
  error,            \* useState(null): <<>> is null, <<m>> the message m
  isConfigOpen,     \* useState(false)
  jsonPath,         \* useState('bpi.USD.rate_float')
  maxDataPoints,    \* useState(20)
  fetchData,        \* the memoized callback of the last render: what it closes over
  timers,           \* the armed setInterval timers of the page
  intervalId,       \* intervalId of the last effect run, 0 when undefined
  inFlight,         \* fetchData calls suspended at an await
  nextId,           \* number of the next fetchData call
  budget,           \* fetchData calls the model still lets start
  \* history variables, read by the properties only
  hist,             \* the calls whose samples were appended since data was last emptied
  fixedCap,         \* they were all trimmed to the capacity that is set now
  last,             \* <<>>, or <<what the step just taken did>>: see Completed, Restarted
  stopId,           \* 0, or nextId when Live was left with no user action since
  sinceStop,        \* time passed since then, up to refreshInterval
  \* one evaluation of lines 31-35 on a document and a path of the model's choice
  extraction        \* [obj, path, stage, value, number]: see Extract, Coerce

vars == <<mounted, data, isLive, apiUrl, refreshInterval, error, isConfigOpen,
          jsonPath, maxDataPoints, fetchData, timers, intervalId, inFlight,
          nextId, budget, hist, fixedCap, last, stopId, sinceStop, extraction>>

\* faulty variant: maxDataPoints is missing from the dependencies of useCallback
UseCallbackWithoutMax(prev, url, path, max) ==
  IF prev.apiUrl # url \/ prev.jsonPath # path
  THEN [apiUrl |-> url, jsonPath |-> path, maxDataPoints |-> max]
  ELSE prev

\* useCallback(fn, [apiUrl, jsonPath, maxDataPoints]): the callback of this
\* render closes over the three values; it is a new one when one of them changed
UseCallback(prev, url, path, max) ==
  IF prev.apiUrl # url \/ prev.jsonPath # path \/ prev.maxDataPoints # max
  THEN [apiUrl |-> url, jsonPath |-> path, maxDataPoints |-> max]
  ELSE prev

\* no document is being evaluated
NoExtraction ==
  [obj |-> Undefined, path |-> <<>>, stage |-> "idle", value |-> Undefined, number |-> 0]

\* the component after its first render; calls is the model's budget of polls
Mounted(calls) ==
  /\ mounted = TRUE
  /\ data = <<>>
  /\ isLive = FALSE
  /\ apiUrl = apiExamples[1].url
  /\ refreshInterval = DefaultRefreshInterval
  /\ error = <<>>
  /\ isConfigOpen = FALSE
  /\ jsonPath = apiExamples[1].path
  /\ maxDataPoints = DefaultMaxDataPoints
  /\ fetchData = [apiUrl |-> apiExamples[1].url, jsonPath |-> apiExamples[1].path,
                  maxDataPoints |-> DefaultMaxDataPoints]
  /\ timers = {}
  /\ intervalId = 0
  /\ inFlight = {}
  /\ nextId = 1
  /\ budget = calls
  /\ hist = <<>>
  /\ fixedCap = TRUE
  /\ last = <<>>
  /\ stopId = 0
  /\ sinceStop = 0
  /\ extraction = NoExtraction

Init == Mounted(MaxPolls)

\* ------------------------------------------------------------- timers
\* faulty variant: clearInterval disarms nothing
clearIntervalNothing(ts, h) == ts

\* clearInterval(h)
clearInterval(ts, h) == {t \in ts : t.id # h}

\* faulty variant: the test of the cleanup is inverted
CleanupInverted(ts, h) == IF h = 0 THEN clearInterval(ts, h) ELSE ts

\* the cleanup an effect run returns: if (intervalId) clearInterval(intervalId)
Cleanup(ts, h) == IF h # 0 THEN clearInterval(ts, h) ELSE ts

\* the handle setInterval returns: one no armed timer has
FreshHandle(ts) == CHOOSE h \in 1..(Cardinality(ts) + 1) : \A t \in ts : t.id # h

\* faulty variant: the timer is armed at the interval of the previous render
setIntervalStale(ts, fn, period) ==
  ts \cup {[id |-> FreshHandle(ts), fn |-> fn, period |-> refreshInterval,
            due |-> refreshInterval]}

\* setInterval(() => { fetchData() }, refreshInterval): the callback closes
\* over the fetchData of the render whose effect arms it
setInterval(ts, fn, period) ==
  ts \cup {[id |-> FreshHandle(ts), fn |-> fn, period |-> period, due |-> period]}

\* -------------------------------------------------------------- polls
\* a call of fetchData may start (the bounds of the model)
CanStart == budget > 0 /\ Cardinality(inFlight) < MaxInFlight

\* faulty variant: the request is sent twice
StartCallTwice(calls, id, fn, at) ==
  calls \cup {[id |-> id, fn |-> fn, at |-> at], [id |-> -id, fn |-> fn, at |-> at]}

\* fetchData() up to its first await: fetch(apiUrl) is sent and the call is
\* suspended. fn is the callback called, at the configuration of the
\* component at that moment (read by the properties only)
StartCall(calls, id, fn, at) == calls \cup {[id |-> id, fn |-> fn, at |-> at]}

\* faulty variant: the catch block leaves the error as it was
CatchErrorKeeps(prev, message) == prev

\* setError(err.message) of the catch block
CatchError(prev, message) == <<message>>

\* history: call has just completed, with the error shown before it did
Completed(call, ok) == <<[op |-> "completed", call |-> call, ok |-> ok, was |-> error]>>

\* history: the interval was changed while Live
Restarted == <<[op |-> "interval", call |-> nextId, ok |-> TRUE, was |-> error]>>

\* newDataPoint of a call: the call's number stands for its timestamp
NewDataPoint(id, url, path) ==
  [call |-> id, value |-> ToValue(getValueFromPath(Body(url), path)), fullData |-> Body(url)]

\* faulty variant: setData([...data, newDataPoint]) on the data of the render
\* that made the callback, which is the empty first one: the appends of the
\* calls that completed in between are lost
UpdatedOverwrites(prevData, newDataPoint, max) == Slice(<<newDataPoint>>, -max)

\* faulty variant: slice(0, maxDataPoints), which keeps the oldest samples
UpdatedKeepsOldest(prevData, newDataPoint, max) ==
  LET updated == Append(prevData, newDataPoint) IN
    IF Len(updated) <= max THEN updated ELSE SubSeq(updated, 1, max)

\* setData(prevData => [...prevData, newDataPoint].slice(-maxDataPoints))
Updated(prevData, newDataPoint, max) == Slice(Append(prevData, newDataPoint), -max)

\* ------------------------------------------------- render and effect
\* the effect body with its dependencies isLive, refreshInterval, fetchData,
\* after the cleanup of the previous run
EffectRun(live, period, fd, at) ==
  LET cleared == Cleanup(timers, intervalId) IN
    IF live
    THEN /\ CanStart
         /\ inFlight' = StartCall(inFlight, nextId, fd, at)
         /\ nextId' = nextId + 1 /\ budget' = budget - 1
         /\ timers' = setInterval(cleared, fd, period)
         /\ intervalId' = FreshHandle(cleared)
    ELSE /\ timers' = cleared
         /\ intervalId' = 0
         /\ UNCHANGED <<inFlight, nextId, budget>>

\* the render after a handler has set state, and the effect, which runs
\* again when one of its dependencies changed
Commit(live, period, url, path, max) ==
  LET fd == UseCallback(fetchData, url, path, max) IN
    /\ fetchData' = fd
    /\ IF live # isLive \/ period # refreshInterval \/ fd # fetchData
       THEN EffectRun(live, period, fd, [apiUrl |-> url, jsonPath |-> path, maxDataPoints |-> max])
       ELSE UNCHANGED <<timers, intervalId, inFlight, nextId, budget>>

\* ------------------------------------------------------- user actions
\* toggleLive: setIsLive(!isLive)
ToggleLive ==
  /\ mounted
  /\ isLive' = ~isLive
  /\ Commit(~isLive, refreshInterval, apiUrl, jsonPath, maxDataPoints)
  /\ last' = <<>>
  /\ stopId' = IF isLive THEN nextId ELSE 0
  /\ sinceStop' = 0
  /\ UNCHANGED <<mounted, data, apiUrl, refreshInterval, error, isConfigOpen,
                 jsonPath, maxDataPoints, hist, fixedCap>>
  /\ UNCHANGED extraction

\* "Actualizar una vez": onClick={fetchData}, disabled={isLive}
RefreshOnce ==
  /\ mounted /\ ~isLive
  /\ CanStart
  /\ inFlight' = StartCall(inFlight, nextId, fetchData,
                   [apiUrl |-> apiUrl, jsonPath |-> jsonPath, maxDataPoints |-> maxDataPoints])
  /\ nextId' = nextId + 1 /\ budget' = budget - 1
  /\ last' = <<>> /\ stopId' = 0 /\ sinceStop' = 0
  /\ UNCHANGED <<mounted, data, isLive, apiUrl, refreshInterval, error, isConfigOpen,
                 jsonPath, maxDataPoints, fetchData, timers, intervalId, hist, fixedCap>>
  /\ UNCHANGED extraction

\* clearData: setData([]); setError(null)
ClearData ==
  /\ mounted
  /\ data' = <<>> /\ error' = <<>>
  /\ hist' = <<>> /\ fixedCap' = TRUE
  /\ last' = <<>> /\ stopId' = 0 /\ sinceStop' = 0
  /\ UNCHANGED <<mounted, isLive, apiUrl, refreshInterval, isConfigOpen, jsonPath,
                 maxDataPoints, fetchData, timers, intervalId, inFlight, nextId, budget>>
  /\ UNCHANGED extraction

\* "Configuracion": setIsConfigOpen(!isConfigOpen)
ToggleConfig ==
  /\ mounted
  /\ isConfigOpen' = ~isConfigOpen
  /\ last' = <<>> /\ stopId' = 0 /\ sinceStop' = 0
  /\ UNCHANGED <<mounted, data, isLive, apiUrl, refreshInterval, error, jsonPath,
                 maxDataPoints, fetchData, timers, intervalId, inFlight, nextId, budget,
                 hist, fixedCap>>
  /\ UNCHANGED extraction

\* the interval <select>: setRefreshInterval(Number(e.target.value))
SetRefreshInterval(ms) ==
  /\ mounted /\ ms # refreshInterval
  /\ refreshInterval' = ms
  /\ Commit(isLive, ms, apiUrl, jsonPath, maxDataPoints)
  /\ last' = (IF isLive THEN Restarted ELSE <<>>)
  /\ stopId' = 0 /\ sinceStop' = 0
  /\ UNCHANGED <<mounted, data, isLive, apiUrl, error, isConfigOpen, jsonPath,
                 maxDataPoints, hist, fixedCap>>
  /\ UNCHANGED extraction

\* the URL field of the configuration panel: setApiUrl(e.target.value)
SetApiUrl(url) ==
  /\ mounted /\ isConfigOpen /\ url # apiUrl
  /\ apiUrl' = url
  /\ Commit(isLive, refreshInterval, url, jsonPath, maxDataPoints)
  /\ last' = <<>> /\ stopId' = 0 /\ sinceStop' = 0
  /\ UNCHANGED <<mounted, data, isLive, refreshInterval, error, isConfigOpen,
                 jsonPath, maxDataPoints, hist, fixedCap>>
  /\ UNCHANGED extraction

\* the path field: setJsonPath(e.target.value)
SetJsonPath(path) ==
  /\ mounted /\ isConfigOpen /\ path # jsonPath
  /\ jsonPath' = path
  /\ Commit(isLive, refreshInterval, apiUrl, path, maxDataPoints)
  /\ last' = <<>> /\ stopId' = 0 /\ sinceStop' = 0
  /\ UNCHANGED <<mounted, data, isLive, apiUrl, refreshInterval, error,
                 isConfigOpen, maxDataPoints, hist, fixedCap>>
  /\ UNCHANGED extraction

\* the maxDataPoints field: setMaxDataPoints(Number(e.target.value))
SetMaxDataPoints(max) ==
  /\ mounted /\ isConfigOpen /\ max # maxDataPoints
  /\ maxDataPoints' = max
  /\ Commit(isLive, refreshInterval, apiUrl, jsonPath, max)
  /\ fixedCap' = (hist = <<>>)
  /\ last' = <<>> /\ stopId' = 0 /\ sinceStop' = 0
  /\ UNCHANGED <<mounted, data, isLive, apiUrl, refreshInterval, error,
                 isConfigOpen, jsonPath, hist>>
  /\ UNCHANGED extraction

\* loadExample(example): setApiUrl, setJsonPath, setIsConfigOpen(false), clearData()
LoadExample(example) ==
  /\ mounted /\ isConfigOpen
  /\ apiUrl' = example.url
  /\ jsonPath' = example.path
  /\ isConfigOpen' = FALSE
  /\ data' = <<>> /\ error' = <<>>
  /\ Commit(isLive, refreshInterval, example.url, example.path, maxDataPoints)
  /\ hist' = <<>> /\ fixedCap' = TRUE
  /\ last' = <<>> /\ stopId' = 0 /\ sinceStop' = 0
  /\ UNCHANGED <<mounted, isLive, refreshInterval, maxDataPoints>>
  /\ UNCHANGED extraction

\* the component is unmounted: the cleanup of the last effect run
Unmount ==
  /\ mounted
  /\ mounted' = FALSE
  /\ timers' = Cleanup(timers, intervalId)
  /\ last' = <<>> /\ stopId' = 0 /\ sinceStop' = 0
  /\ UNCHANGED <<data, isLive, apiUrl, refreshInterval, error, isConfigOpen,
                 jsonPath, maxDataPoints, fetchData, intervalId, inFlight, nextId, budget,
                 hist, fixedCap>>
  /\ UNCHANGED extraction

\* ------------------------------------------------- clock and network
\* one Quantum passes; a timer that is due fires before more time passes
AdvanceTime ==
  /\ timers # {} \/ (stopId # 0 /\ sinceStop < refreshInterval)
  /\ \A t \in timers : t.due >= Quantum
  /\ timers' = {[t EXCEPT !.due = @ - Quantum] : t \in timers}
  /\ sinceStop' = IF stopId # 0 /\ sinceStop < refreshInterval
                  THEN sinceStop + Quantum ELSE sinceStop
  /\ last' = <<>>
  /\ UNCHANGED <<mounted, data, isLive, apiUrl, refreshInterval, error, isConfigOpen,
                 jsonPath, maxDataPoints, fetchData, intervalId, inFlight, nextId, budget,
                 hist, fixedCap, stopId>>
  /\ UNCHANGED extraction

\* a tick: the callback of a due timer calls the fetchData it closes over
TimerFire(t) ==
  /\ t \in timers /\ t.due = 0
  /\ CanStart
  /\ inFlight' = StartCall(inFlight, nextId, t.fn,
                   [apiUrl |-> apiUrl, jsonPath |-> jsonPath, maxDataPoints |-> maxDataPoints])
  /\ nextId' = nextId + 1 /\ budget' = budget - 1
  /\ timers' = (timers \ {t}) \cup {[t EXCEPT !.due = t.period]}
  /\ last' = <<>>
  /\ UNCHANGED <<mounted, data, isLive, apiUrl, refreshInterval, error, isConfigOpen,
                 jsonPath, maxDataPoints, fetchData, intervalId, hist, fixedCap,
                 stopId, sinceStop>>
  /\ UNCHANGED extraction

\* the try block runs to its end: the response is OK and parses; the sample
\* is appended, the error cleared (state setters of an unmounted component
\* do nothing)
PollSucceed(p) ==
  /\ p \in inFlight
  /\ inFlight' = inFlight \ {p}
  /\ LET pt == NewDataPoint(p.id, p.fn.apiUrl, p.fn.jsonPath) IN
       IF mounted
       THEN /\ data' = Updated(data, pt, p.fn.maxDataPoints)
            /\ error' = <<>>
            /\ hist' = Append(hist, p.id)
            /\ fixedCap' = (fixedCap /\ p.fn.maxDataPoints = maxDataPoints)
       ELSE UNCHANGED <<data, error, hist, fixedCap>>
  /\ last' = Completed(p, TRUE)
  /\ UNCHANGED <<mounted, isLive, apiUrl, refreshInterval, isConfigOpen, jsonPath,
                 maxDataPoints, fetchData, timers, intervalId, nextId, budget, stopId, sinceStop>>
  /\ UNCHANGED extraction

\* fetch rejects, the status is not OK or response.json() rejects: the catch
\* block sets the error to err.message
PollFail(p, message) ==
  /\ p \in inFlight
  /\ inFlight' = inFlight \ {p}
  /\ error' = IF mounted THEN CatchError(error, message) ELSE error
  /\ last' = Completed(p, FALSE)
  /\ UNCHANGED <<mounted, data, isLive, apiUrl, refreshInterval, isConfigOpen,
                 jsonPath, maxDataPoints, fetchData, timers, intervalId, nextId, budget,
                 hist, fixedCap, stopId, sinceStop>>
  /\ UNCHANGED extraction

Next ==
  \/ ToggleLive
  \/ RefreshOnce
  \/ ClearData
  \/ ToggleConfig
  \/ \E ms \in IntervalOptions : SetRefreshInterval(ms)
  \/ \E url \in Urls : SetApiUrl(url)
  \/ \E path \in Paths : SetJsonPath(path)
  \/ \E max \in Capacities : SetMaxDataPoints(max)
  \/ \E i \in ExampleChoices : LoadExample(apiExamples[i])
  \/ Unmount
  \/ AdvanceTime
  \/ \E t \in timers : TimerFire(t)
  \/ \E p \in inFlight : PollSucceed(p)
  \/ \E p \in inFlight, message \in ErrorMessages : PollFail(p, message)

Spec == Init /\ [][Next]_vars

\* The dashboard on one endpoint: the user polls, pauses, clears and changes
\* the capacity within the range the field declares, and leaves the URL, the
\* path and the interval alone. Long enough a run to fill the buffer.
InitBuffer == Mounted(MaxAppends)

NextBuffer ==
  \/ ToggleLive
  \/ RefreshOnce
  \/ ClearData
  \/ ToggleConfig
  \/ \E max \in RangeCapacities : SetMaxDataPoints(max)
  \/ AdvanceTime
  \/ \E t \in timers : TimerFire(t)
  \/ \E p \in inFlight : PollSucceed(p)
  \/ \E p \in inFlight : PollFail(p, "Failed to fetch")

SpecBuffer == InitBuffer /\ [][NextBuffer]_vars

\* One evaluation of the body of the try block after response.json(), on a
\* document and a path of the model's choice: the dashboard itself stands still.
\* the segments the model writes paths with
Segments == {"a", "b", "0", "length", ""}

\* segs.join('.'): an empty segment leaves no run between its dots
RECURSIVE Join(_)
Join(segs) ==
  IF segs = <<>> THEN <<>>
  ELSE (IF segs[1] = "" THEN <<>> ELSE <<segs[1]>>)
       \o (IF Len(segs) = 1 THEN <<>> ELSE <<".">> \o Join(Tail(segs)))

\* the paths of one to MaxSegments segments; the one segment "" is the empty path
DotPaths == {Join(segs) : segs \in UNION {[1..n -> Segments] : n \in 1..MaxSegments}}

\* the object {a: v}
Field(v) == Obj([k \in {"a"} |-> v])

\* the documents response.json() resolves to
Documents ==
  { Null, Bool(TRUE), Bool(FALSE), Num(0), Num(5), Str(<<>>), Str(<<"4", "2">>),
    Arr(<<>>), Arr(<<Num(7), Null>>),
    Field(Obj([k \in {"b"} |-> Num(5)])),
    Field(Null), Field(Bool(FALSE)), Field(Num(0)), Field(Num(5)),
    Field(Str(<<>>)), Field(Str(<<"4", "2">>)),
    Field(Arr(<<Obj([k \in {"b"} |-> Num(5)])>>)),
    Obj([k \in {"a", "b"} |-> IF k = "a" THEN Field(Num(0)) ELSE Num(3)]) }

InitExtract ==
  /\ mounted = TRUE
  /\ data = <<>>
  /\ isLive = FALSE
  /\ apiUrl = apiExamples[1].url
  /\ refreshInterval = DefaultRefreshInterval
  /\ error = <<>>
  /\ isConfigOpen = FALSE
  /\ jsonPath = apiExamples[1].path
  /\ maxDataPoints = DefaultMaxDataPoints
  /\ fetchData = [apiUrl |-> apiExamples[1].url, jsonPath |-> apiExamples[1].path,
                  maxDataPoints |-> DefaultMaxDataPoints]
  /\ timers = {}
  /\ intervalId = 0
  /\ inFlight = {}
  /\ nextId = 1
  /\ budget = 0
  /\ hist = <<>>
  /\ fixedCap = TRUE
  /\ last = <<>>
  /\ stopId = 0
  /\ sinceStop = 0
  /\ \E json \in Documents, path \in DotPaths :
       extraction = [obj |-> json, path |-> path, stage |-> "parsed",
                     value |-> Undefined, number |-> 0]

\* const value = getValueFromPath(json, jsonPath)
Extract ==
  /\ extraction.stage = "parsed"
  /\ extraction' = [extraction EXCEPT
                      !.stage = "extracted",
                      !.value = getValueFromPath(extraction.obj, extraction.path)]
  /\ UNCHANGED <<mounted, data, isLive, apiUrl, refreshInterval, error, isConfigOpen,
                 jsonPath, maxDataPoints, fetchData, timers, intervalId, inFlight,
                 nextId, budget, hist, fixedCap, last, stopId, sinceStop>>

\* newDataPoint.value: typeof value === 'number' ? value : parseFloat(value) || 0
Coerce ==
  /\ extraction.stage = "extracted"
  /\ extraction' = [extraction EXCEPT
                      !.stage = "coerced",
                      !.number = ToValue(extraction.value)]
  /\ UNCHANGED <<mounted, data, isLive, apiUrl, refreshInterval, error, isConfigOpen,
                 jsonPath, maxDataPoints, fetchData, timers, intervalId, inFlight,
                 nextId, budget, hist, fixedCap, last, stopId, sinceStop>>

NextExtract ==
  \/ Extract
  \/ Coerce

SpecExtract == InitExtract /\ [][NextExtract]_vars

\* ---------------------------------------------------------- properties
\* the last n elements of s, all of s when it has no more than n
KeepLast(s, n) == IF Len(s) <= n THEN s ELSE SubSeq(s, Len(s) - n + 1, Len(s))

\* the calls whose samples data holds, in order
Calls(samples) == [i \in 1..Len(samples) |-> samples[i].call]

\* the step just taken completed a call
JustCompleted == last # <<>> /\ last[1].op = "completed"

\* C1: in every reachable state the buffer holds at most maxDataPoints
\* samples (SpecBuffer: every capacity set is within [MinPoints, MaxPoints])
BufferWithinCapacity == Len(data) <= maxDataPoints

\* C2: while every append since the buffer was last emptied trimmed to the
\* capacity N that is still set, once more than N samples were appended the
\* buffer holds exactly the N appended last, in the order of their appends
LastNAppended ==
  (fixedCap /\ Len(hist) > maxDataPoints) =>
    /\ Len(data) = maxDataPoints
    /\ Calls(data) = KeepLast(hist, maxDataPoints)

\* C2 witness: a sample has just been appended to a full buffer at a fixed
\* capacity, and the oldest one went
LastNAppendedWitness ==
  /\ fixedCap /\ Len(hist) > maxDataPoints
  /\ JustCompleted /\ last[1].ok
  /\ data[Len(data)].call = last[1].call.id
  /\ data[1].call # hist[1]

\* C3: a capacity change to fewer than the buffer holds trims the buffer,
\* in that step, to the most recent samples
CapacityChangeTrims ==
  [][(maxDataPoints' # maxDataPoints /\ maxDataPoints' < Len(data))
       => data' = KeepLast(data, maxDataPoints')]_vars

\* C4: every change of the URL or of the path empties the buffer in that step
EndpointChangeClears ==
  [][(apiUrl' # apiUrl \/ jsonPath' # jsonPath) => data' = <<>>]_vars

\* C5: exactly one timer is armed while the component is mounted and Live,
\* none while it is Paused or unmounted
OneTimerWhileLive == Cardinality(timers) = (IF mounted /\ isLive THEN 1 ELSE 0)

\* C5 witness: Live on a changed interval and a changed URL, after the effect
\* ran more than once; the one timer is that of the last effect run
OneTimerWhileLiveWitness ==
  /\ mounted /\ isLive
  /\ refreshInterval # DefaultRefreshInterval
  /\ apiUrl # apiExamples[1].url
  /\ nextId > 2
  /\ \E t \in timers : t.id = intervalId /\ t.period = refreshInterval /\ t.fn = fetchData

NoAppendAfterStop == [][(stopId # 0 /\ stopId' # 0) => data' = data]_vars

\* C7 amended: from the stop on, with no user action, no timer is armed and
\* no call starts; the buffer changes only by the append of a call that was
\* in flight at the stop
OnlyStragglersAfterStop ==
  [][(stopId # 0 /\ stopId' # 0) =>
       /\ timers' = {}
       /\ nextId' = nextId
       /\ data' # data =>
            /\ last' # <<>> /\ last'[1].op = "completed" /\ last'[1].ok
            /\ last'[1].call \in inFlight
            /\ last'[1].call.id < stopId
            /\ hist' = Append(hist, last'[1].call.id)]_vars

\* C7 witness: a full interval after the stop, a call in flight at the stop
\* has completed and appended its sample
OnlyStragglersAfterStopWitness ==
  /\ stopId # 0 /\ sinceStop >= refreshInterval
  /\ JustCompleted /\ last[1].ok
  /\ data # <<>> /\ data[Len(data)].call = last[1].call.id

\* C8: a call that fails sets the error to its message and leaves the buffer
\* as it was; a call that succeeds appends its sample and clears the error
PollOutcome ==
  [][(mounted /\ last' # <<>> /\ last'[1].op = "completed") =>
       IF last'[1].ok
       THEN /\ error' = <<>>
            /\ data' # <<>> /\ data'[Len(data')].call = last'[1].call.id
            /\ hist' = Append(hist, last'[1].call.id)
       ELSE /\ error' \in {<<m>> : m \in ErrorMessages}
            /\ data' = data /\ hist' = hist]_vars

\* C8 witness: a call has just succeeded while the error of an earlier failed
\* call was shown, and the error is gone
PollOutcomeWitness ==
  /\ mounted /\ JustCompleted /\ last[1].ok
  /\ last[1].was # <<>>
  /\ error = <<>>

\* C9 as stated: an interval change while Live replaces the timer by one at
\* the new period, due one period later, and starts no call
IntervalChangeOnlyReplacesTimer ==
  [][(mounted /\ isLive /\ refreshInterval' # refreshInterval) =>
       /\ \E t \in timers' :
            timers' = {t} /\ t.period = refreshInterval' /\ t.due = refreshInterval'
       /\ timers \cap timers' = {}
       /\ nextId' = nextId]_vars

\* C9 amended: an interval change while Live replaces the timer by one at
\* the new period, due one period later, and starts one call at once
IntervalChangeRestarts ==
  [][(mounted /\ isLive /\ refreshInterval' # refreshInterval) =>
       /\ \E t \in timers' :
            timers' = {t} /\ t.period = refreshInterval' /\ t.due = refreshInterval'
       /\ timers \cap timers' = {}
       /\ nextId' = nextId + 1
       /\ \E c \in inFlight' : c.id = nextId /\ inFlight' = inFlight \cup {c}]_vars

\* C9 witness: the interval has just been changed while Live: the call
\* started by the change is in flight and the one timer is due a full new
\* period later
IntervalChangeRestartsWitness ==
  /\ mounted /\ isLive
  /\ last # <<>> /\ last[1].op = "interval"
  /\ \E c \in inFlight : c.id = last[1].call
  /\ \E t \in timers : timers = {t} /\ t.period = refreshInterval /\ t.due = refreshInterval

\* C10: a call that succeeds appends the sample of the URL and the path that
\* were set when it started, and trims to the capacity that was set then
InFlightUsesCaptured ==
  [][(mounted /\ last' # <<>> /\ last'[1].op = "completed" /\ last'[1].ok) =>
       LET c == last'[1].call IN
         data' = KeepLast(Append(data, NewDataPoint(c.id, c.at.apiUrl, c.at.jsonPath)),
                          c.at.maxDataPoints)]_vars

\* C10 witness: the URL, the path and the capacity were all changed while the
\* call that has just succeeded was in flight, and its smaller capacity
\* evicted a sample
InFlightUsesCapturedWitness ==
  /\ mounted /\ JustCompleted /\ last[1].ok
  /\ last[1].call.at.apiUrl # apiUrl
  /\ last[1].call.at.jsonPath # jsonPath
  /\ last[1].call.at.maxDataPoints < maxDataPoints
  /\ Len(hist) > Len(data)
  /\ Len(data) = last[1].call.at.maxDataPoints

\* C11: while the component is mounted, a call that succeeds appends its
\* sample once, whatever happened while it was in flight: it was in flight
\* and is no longer, its sample was not in the buffer and is now its last
\* and only there once, and the samples before it are those the buffer held,
\* less the oldest that the capacity set at its start evicts
AppendsExactlyOnce ==
  [][(mounted /\ last' # <<>> /\ last'[1].op = "completed" /\ last'[1].ok) =>
       LET c == last'[1].call
           max == c.at.maxDataPoints
           kept == IF Len(data) + 1 <= max THEN Len(data) ELSE max - 1
       IN /\ c \in inFlight /\ c \notin inFlight'
          /\ \A i \in DOMAIN data : data[i].call # c.id
          /\ Len(data') = kept + 1
          /\ data'[Len(data')].call = c.id
          /\ SubSeq(data', 1, kept) = SubSeq(data, Len(data) - kept + 1, Len(data))
          /\ Cardinality({i \in DOMAIN data' : data'[i].call = c.id}) = 1]_vars

\* C11 witness: a call has just appended its sample after the dashboard was
\* stopped, on a changed interval, and behind the sample of a call that was
\* started after it and completed while it was in flight
AppendsExactlyOnceWitness ==
  /\ mounted /\ JustCompleted /\ last[1].ok
  /\ stopId # 0 /\ last[1].call.id < stopId
  /\ refreshInterval # DefaultRefreshInterval
  /\ Len(data) = 2
  /\ data[2].call = last[1].call.id
  /\ data[1].call > data[2].call

\* where a traversal that takes every segment for a field name ends: the
\* value reached and the segment it could not apply (past the last when all
\* were applied)
RECURSIVE FieldWalk(_, _, _)
FieldWalk(v, parts, i) ==
  IF i <= Len(parts) /\ v.type = "object" /\ parts[i] \in DOMAIN v.fields
  THEN FieldWalk(v.fields[parts[i]], parts, i + 1)
  ELSE [at |-> i, v |-> v]

\* a traversal that ends at the first falsy value and, until then, reads a
\* field of an object, an element or the length of an array or a string, and
\* undefined from anything else
RECURSIVE FalsyWalk(_, _, _)
FalsyWalk(v, parts, i) ==
  IF i > Len(parts) \/ ~Truthy(v) THEN v
  ELSE CASE v.type = "object" ->
              IF parts[i] \in DOMAIN v.fields
              THEN FalsyWalk(v.fields[parts[i]], parts, i + 1) ELSE Undefined
         [] v.type = "array" ->
              IF parts[i] = "length" THEN FalsyWalk(Num(Len(v.elems)), parts, i + 1)
              ELSE IF IndexOf(parts[i]) \in 0..(Len(v.elems) - 1)
                   THEN FalsyWalk(v.elems[IndexOf(parts[i]) + 1], parts, i + 1)
                   ELSE Undefined
         [] v.type = "string" ->
              IF parts[i] = "length" THEN FalsyWalk(Num(Len(v.chars)), parts, i + 1)
              ELSE IF IndexOf(parts[i]) \in 0..(Len(v.chars) - 1)
                   THEN FalsyWalk(Str(<<v.chars[IndexOf(parts[i]) + 1]>>), parts, i + 1)
                   ELSE Undefined
         [] OTHER -> Undefined

\* the extraction has been evaluated, on a path that is not empty
Extracted == extraction.stage \in {"extracted", "coerced"} /\ extraction.path # <<>>

\* C12 as stated: the extraction of a non-empty path is the value that the
\* segments address as field names, and undefined as soon as a segment meets
\* a value that is no object or an object without that field
MappingOnlyExtraction ==
  Extracted =>
    LET parts == Split(extraction.path)
        w == FieldWalk(extraction.obj, parts, 1)
    IN extraction.value = (IF w.at > Len(parts) THEN w.v ELSE Undefined)

\* C12 amended: nothing is raised; where every segment is a field of the
\* object it meets, the value addressed is the result; otherwise the result
\* is the first falsy value met (null, false, 0 and "" as they are, undefined
\* for a missing field), an array or a string answering an index or "length"
\* on the way; and a falsy result becomes the number 0
ExtractionStopsAtFalsy ==
  Extracted =>
    LET parts == Split(extraction.path)
        w == FieldWalk(extraction.obj, parts, 1)
    IN /\ extraction.value.type # "TypeError"
       /\ w.at > Len(parts) => extraction.value = w.v
       /\ extraction.value = FalsyWalk(extraction.obj, parts, 1)
       /\ (extraction.stage = "coerced" /\ ~Truthy(extraction.value))
            => extraction.number = 0

\* C12 witness: {a: null} and the path a.b have been evaluated: the result
\* is the null that the segment b met, and it became the number 0
ExtractionStopsAtFalsyWitness ==
  /\ extraction.stage = "coerced"
  /\ extraction.obj = Field(Null)
  /\ extraction.path = <<"a", ".", "b">>
  /\ extraction.value = Null
  /\ extraction.number = 0

====
